---- MODULE Spec2Model ----
(***************************************************************************)
(* GitIngestMCP (src/index.ts): four MCP tools that translate their        *)
(* arguments into an option object, await the ingestion collaborator       *)
(* `ingest(repo_url, options)` once, and serialise either its result or    *)
(* the value it raised into one JSON text reply.                           *)
(*                                                                         *)
(* An invocation occupies a slot of the transport.  A slot is idle, or its *)
(* handler is suspended at `await ingest(...)`, or it has returned a reply *)
(* which the transport has not yet sent, or the call was refused by the    *)
(* tool's input schema.                                                    *)
(***************************************************************************)
EXTENDS Integers, Sequences, FiniteSets, TLC

\* ------------------------------------------------------------------------
\* Bounds of the model
\* ------------------------------------------------------------------------
\* Slots of the one-call-at-a-time specification (Spec).
MaxSlots == 1
\* Slots of the concurrent specification (SpecConc).
MaxConcSlots == 2
\* The clock read by `new Date()` takes the values 0..MaxClock.
MaxClock == 1

\* ------------------------------------------------------------------------
\* State
\* ------------------------------------------------------------------------
VARIABLES
    pc,        \* slot -> "idle" | "awaiting" | "replied" | "rejected"
    request,   \* slot -> the tool called and the arguments received
    frame,     \* slot -> the handler's locals while it is suspended (<<>> if none)
    calls,     \* slot -> the calls of `ingest` made for the slot's invocation
    outcome,   \* slot -> how the slot's call of `ingest` stands
    reply,     \* slot -> the replies the handler returned
    now        \* the clock read by `new Date()`

vars == <<pc, request, frame, calls, outcome, reply, now>>

Slots == DOMAIN pc

\* ------------------------------------------------------------------------
\* JavaScript values.  Every value is a record of the same shape, so that
\* values of different types can be compared.
\* ------------------------------------------------------------------------
JsUndefined == [type |-> "undefined", str |-> "", num |-> 0, arr |-> <<>>]
JsString(s) == [type |-> "string", str |-> s, num |-> 0, arr |-> <<>>]
JsNumber(n) == [type |-> "number", str |-> "", num |-> n, arr |-> <<>>]
\* An array of strings.
JsArray(a) == [type |-> "array", str |-> "", num |-> 0, arr |-> a]
\* A nested object inside a reply document; its members are the keys that
\* extend its own key with a dot.
JsObject == [type |-> "object", str |-> "", num |-> 0, arr |-> <<>>]
\* `new Error(msg)`.
JsError(msg) == [type |-> "Error", str |-> msg, num |-> 0, arr |-> <<>>]

\* JavaScript truthiness, as tested by `if (x)`.
Truthy(v) ==
    CASE v.type = "undefined" -> FALSE
      [] v.type = "string" -> v.str # ""
      [] v.type = "number" -> v.num # 0
      [] OTHER -> TRUE

RECURSIVE Join(_)
\* Array.prototype.join(","), which String() applies to an array.
Join(a) ==
    IF a = <<>> THEN ""
    ELSE IF Len(a) = 1 THEN a[1]
    ELSE a[1] \o "," \o Join(Tail(a))

\* String(v) of a thrown value.
String(v) ==
    CASE v.type = "undefined" -> "undefined"
      [] v.type = "string" -> v.str
      [] v.type = "number" -> ToString(v.num)
      [] v.type = "array" -> Join(v.arr)
      [] v.type = "object" -> "[object Object]"
      [] v.type = "Error" -> IF v.str = "" THEN "Error" ELSE "Error: " \o v.str

\* `error instanceof Error ? error.message : String(error)`
ErrorMessage(error) ==
    IF error.type = "Error" THEN error.str ELSE String(error)

\* Date.prototype.toISOString() of a clock reading of t seconds (t < 10).
toISOString(t) == "1970-01-01T00:00:0" \o ToString(t) \o ".000Z"

\* JSON.stringify(doc, null, 2) of a document given as a function from keys
\* (nested keys joined by dots) to values: a member whose value is undefined
\* is left out, every other member is written as it is.
JSONstringify(doc) ==
    [k \in {m \in DOMAIN doc : doc[m].type # "undefined"} |-> doc[k]]

\* The members of object o under the key prefix.
Members(prefix, o) ==
    [p \in {prefix \o k : k \in DOMAIN o} |->
        o[CHOOSE k \in DOMAIN o : prefix \o k = p]]

\* The object {}.
EmptyObject == [k \in {} |-> JsUndefined]

\* ------------------------------------------------------------------------
\* Tools and their input schemas
\* ------------------------------------------------------------------------
ToolNames ==
    {"ingest_github_repo", "get_repo_structure", "analyze_code_files", "get_repo_docs"}

\* z.enum([...]) of analyze_code_files.
LanguageEnum ==
    {"python", "javascript", "typescript", "go", "rust", "java", "csharp"}

\* z.string()
zString(v) == v.type = "string"
\* z.array(z.string()).optional()
zOptionalStringArray(v) == v.type \in {"undefined", "array"}
\* z.number().optional()
zOptionalNumber(v) == v.type \in {"undefined", "number"}
\* z.enum(values)
zEnum(values, v) == v.type = "string" /\ v.str \in values

IngestSchema(a) ==
    /\ zString(a.repo_url)
    /\ zOptionalStringArray(a.include_patterns)
    /\ zOptionalStringArray(a.exclude_patterns)
    /\ zOptionalNumber(a.max_file_size)

StructureSchema(a) == zString(a.repo_url)

\* AnalyzeSchema with the language declared as z.string().
AnalyzeSchemaAnyString(a) ==
    /\ zString(a.repo_url)
    /\ zString(a.language)

AnalyzeSchema(a) ==
    /\ zString(a.repo_url)
    /\ zEnum(LanguageEnum, a.language)

DocsSchema(a) == zString(a.repo_url)

\* The schema registered for a tool accepts the arguments.
ValidInput(tool, a) ==
    CASE tool = "ingest_github_repo" -> IngestSchema(a)
      [] tool = "get_repo_structure" -> StructureSchema(a)
      [] tool = "analyze_code_files" -> AnalyzeSchema(a)
      [] tool = "get_repo_docs" -> DocsSchema(a)

\* ------------------------------------------------------------------------
\* Option translation and reply documents of the four handlers
\* ------------------------------------------------------------------------
OptionKeys == {"include_patterns", "exclude_patterns", "max_file_size"}

\* IngestOptions with `options` hoisted out of the handler: the object is
\* shared, so the keys set by a handler that is still suspended stay in it.
IngestOptionsShared(a) ==
    LET own == {f \in OptionKeys : Truthy(a[f])}
        live == {j \in Slots : frame[j] # <<>>}
        holder(k) == CHOOSE j \in live : k \in DOMAIN frame[j][1].options
        inherited == {k \in OptionKeys : \E j \in live : k \in DOMAIN frame[j][1].options}
    IN  [k \in own \cup inherited |->
            IF k \in own THEN a[k] ELSE frame[holder(k)][1].options[k]]

\* ingest_github_repo: `const options = {}` followed by the three
\* `if (field) options.field = field` statements.
IngestOptions(a) ==
    [k \in {f \in OptionKeys : Truthy(a[f])} |-> a[k]]

\* get_repo_structure: the literal { max_file_size: 1 }.
StructureOptions == "max_file_size" :> JsNumber(1)

\* patternMap with the second javascript pattern forgotten.
patternMapShort ==
    [python |-> <<"*.py">>,
     javascript |-> <<"*.js">>,
     typescript |-> <<"*.ts", "*.tsx">>,
     go |-> <<"*.go">>,
     rust |-> <<"*.rs">>,
     java |-> <<"*.java">>,
     csharp |-> <<"*.cs">>]

\* analyze_code_files: the local table of patterns.
patternMap ==
    [python |-> <<"*.py">>,
     javascript |-> <<"*.js", "*.mjs">>,
     typescript |-> <<"*.ts", "*.tsx">>,
     go |-> <<"*.go">>,
     rust |-> <<"*.rs">>,
     java |-> <<"*.java">>,
     csharp |-> <<"*.cs">>]

\* patternMap[language]; a name the table lacks reads as undefined.
PatternsOf(language) ==
    IF language.type = "string" /\ language.str \in DOMAIN patternMap
    THEN JsArray(patternMap[language.str])
    ELSE JsUndefined

\* analyze_code_files: the option literal.
AnalyzeOptions(a) ==
    [include_patterns |-> PatternsOf(a.language),
     exclude_patterns |-> JsArray(<<"node_modules/*", "dist/*", "build/*", "*.min.js">>),
     max_file_size |-> JsNumber(102400)]

\* DocsOptions with the exclude list of analyze_code_files copied along.
DocsOptionsWithExclude ==
    [include_patterns |-> JsArray(<<"*.md", "*.mdx", "*.txt", "LICENSE*", "README*">>),
     exclude_patterns |-> JsArray(<<"node_modules/*", "dist/*", "build/*", "*.min.js">>),
     max_file_size |-> JsNumber(51200)]

\* get_repo_docs: the option literal.
DocsOptions ==
    [include_patterns |-> JsArray(<<"*.md", "*.mdx", "*.txt", "LICENSE*", "README*">>),
     max_file_size |-> JsNumber(51200)]

\* IngestSuccess echoing the caller's fields instead of the options passed.
IngestSuccessEchoArgs(a, options, r, t) ==
    [summary |-> r.summary, tree |-> r.tree, content |-> r.content]
    @@ ("metadata" :> JsObject)
    @@ ("metadata.repo_url" :> a.repo_url)
    @@ ("metadata.timestamp" :> JsString(toISOString(t)))
    @@ ("metadata.options_used" :> JsObject)
    @@ Members("metadata.options_used.", [k \in OptionKeys |-> a[k]])

\* The object each handler stringifies after `ingest` fulfilled with r.
IngestSuccess(a, options, r, t) ==
    [summary |-> r.summary, tree |-> r.tree, content |-> r.content]
    @@ ("metadata" :> JsObject)
    @@ ("metadata.repo_url" :> a.repo_url)
    @@ ("metadata.timestamp" :> JsString(toISOString(t)))
    @@ ("metadata.options_used" :> JsObject)
    @@ Members("metadata.options_used.", options)

\* StructureSuccess passing the collaborator's content on.
StructureSuccessWithContent(a, r) ==
    [summary |-> r.summary, tree |-> r.tree, content |-> r.content, repo_url |-> a.repo_url]

StructureSuccess(a, r) ==
    [summary |-> r.summary, tree |-> r.tree, repo_url |-> a.repo_url]

AnalyzeSuccess(a, r) ==
    [summary |-> r.summary, tree |-> r.tree, content |-> r.content]
    @@ ("analysis" :> JsObject)
    @@ ("analysis.language" :> a.language)
    @@ ("analysis.patterns_used" :> PatternsOf(a.language))
    @@ ("analysis.repo_url" :> a.repo_url)

DocsSuccess(a, r) ==
    [summary |-> r.summary, tree |-> r.tree, content |-> r.content]
    @@ ("metadata" :> JsObject)
    @@ ("metadata.type" :> JsString("documentation"))
    @@ ("metadata.repo_url" :> a.repo_url)

SuccessDoc(tool, a, options, r, t) ==
    CASE tool = "ingest_github_repo" -> IngestSuccess(a, options, r, t)
      [] tool = "get_repo_structure" -> StructureSuccess(a, r)
      [] tool = "analyze_code_files" -> AnalyzeSuccess(a, r)
      [] tool = "get_repo_docs" -> DocsSuccess(a, r)

\* ErrorText with the first handler's text pasted into every catch block.
ErrorTextPasted(tool) == "Failed to ingest repository"

\* The `error:` text of each handler's catch block.
ErrorText(tool) ==
    CASE tool = "ingest_github_repo" -> "Failed to ingest repository"
      [] tool = "get_repo_structure" -> "Failed to get repository structure"
      [] tool = "analyze_code_files" -> "Failed to analyze code files"
      [] tool = "get_repo_docs" -> "Failed to get repository documentation"

\* The object each handler stringifies in its catch block.
FailureDoc(tool, a, error) ==
    [error |-> JsString(ErrorText(tool)),
     message |-> JsString(ErrorMessage(error)),
     repo_url |-> a.repo_url]
    @@ (IF tool = "analyze_code_files"
        THEN "language" :> a.language
        ELSE EmptyObject)

\* ------------------------------------------------------------------------
\* Inputs
\* ------------------------------------------------------------------------
Args(u, inc, exc, mfs, lang) ==
    [repo_url |-> u, include_patterns |-> inc, exclude_patterns |-> exc,
     max_file_size |-> mfs, language |-> lang]

RepoUrls == {JsString("https://github.com/a/x"), JsString("https://github.com/b/y")}
\* A repository reference as a caller may send it: also missing, or a number.
RepoUrlInputs == RepoUrls \cup {JsUndefined, JsNumber(42)}
IncludeInputs == {JsUndefined, JsArray(<<>>), JsArray(<<"*.py">>)}
ExcludeInputs == {JsUndefined, JsArray(<<>>), JsArray(<<"dist/*">>)}
MaxFileSizeInputs == {JsUndefined, JsNumber(0), JsNumber(1024)}
LanguageInputs == {JsString(l) : l \in LanguageEnum \cup {"ruby"}} \cup {JsUndefined}

\* ingest_github_repo: every combination of the optional fields with one
\* repository, and every repository reference with no optional field.
IngestArgs ==
    {Args(JsString("https://github.com/a/x"), inc, exc, mfs, JsUndefined) :
        inc \in IncludeInputs, exc \in ExcludeInputs, mfs \in MaxFileSizeInputs}
    \cup {Args(u, JsUndefined, JsUndefined, JsUndefined, JsUndefined) : u \in RepoUrlInputs}
RepoOnlyArgs ==
    {Args(u, JsUndefined, JsUndefined, JsUndefined, JsUndefined) : u \in RepoUrlInputs}
AnalyzeArgs ==
    {Args(u, JsUndefined, JsUndefined, JsUndefined, l) :
        u \in RepoUrlInputs, l \in LanguageInputs}

\* What `ingest` may fulfil with, and what it may raise.
Result(c) == [summary |-> JsString("summary"), tree |-> JsString("tree"), content |-> JsString(c)]
Results == {Result(""), Result("files")}
Thrown == {JsError(""), JsError("boom"), JsUndefined}

\* The narrower inputs of the concurrent specification.
ConcIngestArgs ==
    {Args(u, JsUndefined, JsUndefined, mfs, JsUndefined) :
        u \in RepoUrls, mfs \in {JsUndefined, JsNumber(1024)}}
ConcRepoOnlyArgs ==
    {Args(u, JsUndefined, JsUndefined, JsUndefined, JsUndefined) :
        u \in RepoUrls \cup {JsUndefined}}
ConcAnalyzeArgs ==
    {Args(u, JsUndefined, JsUndefined, JsUndefined, JsString(l)) :
        u \in RepoUrls, l \in {"python", "javascript"}}
ConcResults == {Result("files")}
ConcThrown == {JsError("boom")}

\* ------------------------------------------------------------------------
\* Initial state
\* ------------------------------------------------------------------------
NoArgs == Args(JsUndefined, JsUndefined, JsUndefined, JsUndefined, JsUndefined)
NoRequest == [tool |-> "", args |-> NoArgs]
NoResult == [summary |-> JsUndefined, tree |-> JsUndefined, content |-> JsUndefined]
NoOutcome == [state |-> "none", result |-> NoResult, error |-> JsUndefined]
Pending == [state |-> "pending", result |-> NoResult, error |-> JsUndefined]
Fulfilled(r) == [state |-> "fulfilled", result |-> r, error |-> JsUndefined]
Rejected(e) == [state |-> "rejected", result |-> NoResult, error |-> e]

InitSlots(n) ==
    /\ pc = [i \in 1..n |-> "idle"]
    /\ request = [i \in 1..n |-> NoRequest]
    /\ frame = [i \in 1..n |-> <<>>]
    /\ calls = [i \in 1..n |-> <<>>]
    /\ outcome = [i \in 1..n |-> NoOutcome]
    /\ reply = [i \in 1..n |-> <<>>]
    /\ now = 0

Init == InitSlots(MaxSlots)
InitConc == InitSlots(MaxConcSlots)

\* ------------------------------------------------------------------------
\* Actions
\* ------------------------------------------------------------------------
\* Each handler runs from its entry to `await ingest(repo_url, options)`: it
\* builds the options, calls the collaborator and suspends.

\* ingest_github_repo, up to its await.
ingest_github_repo(i, a) ==
    /\ pc[i] = "idle"
    /\ ValidInput("ingest_github_repo", a)
    /\ pc' = [pc EXCEPT ![i] = "awaiting"]
    /\ request' = [request EXCEPT ![i] = [tool |-> "ingest_github_repo", args |-> a]]
    /\ frame' = [frame EXCEPT ![i] = <<[options |-> IngestOptions(a)]>>]
    /\ calls' = [calls EXCEPT ![i] =
            Append(@, [repo_url |-> a.repo_url, options |-> IngestOptions(a)])]
    /\ outcome' = [outcome EXCEPT ![i] = Pending]
    /\ UNCHANGED <<reply, now>>

\* get_repo_structure, up to its await.
get_repo_structure(i, a) ==
    /\ pc[i] = "idle"
    /\ ValidInput("get_repo_structure", a)
    /\ pc' = [pc EXCEPT ![i] = "awaiting"]
    /\ request' = [request EXCEPT ![i] = [tool |-> "get_repo_structure", args |-> a]]
    /\ frame' = [frame EXCEPT ![i] = <<[options |-> StructureOptions]>>]
    /\ calls' = [calls EXCEPT ![i] =
            Append(@, [repo_url |-> a.repo_url, options |-> StructureOptions])]
    /\ outcome' = [outcome EXCEPT ![i] = Pending]
    /\ UNCHANGED <<reply, now>>

\* analyze_code_files, up to its await.
analyze_code_files(i, a) ==
    /\ pc[i] = "idle"
    /\ ValidInput("analyze_code_files", a)
    /\ pc' = [pc EXCEPT ![i] = "awaiting"]
    /\ request' = [request EXCEPT ![i] = [tool |-> "analyze_code_files", args |-> a]]
    /\ frame' = [frame EXCEPT ![i] = <<[options |-> AnalyzeOptions(a)]>>]
    /\ calls' = [calls EXCEPT ![i] =
            Append(@, [repo_url |-> a.repo_url, options |-> AnalyzeOptions(a)])]
    /\ outcome' = [outcome EXCEPT ![i] = Pending]
    /\ UNCHANGED <<reply, now>>

\* get_repo_docs, up to its await.
get_repo_docs(i, a) ==
    /\ pc[i] = "idle"
    /\ ValidInput("get_repo_docs", a)
    /\ pc' = [pc EXCEPT ![i] = "awaiting"]
    /\ request' = [request EXCEPT ![i] = [tool |-> "get_repo_docs", args |-> a]]
    /\ frame' = [frame EXCEPT ![i] = <<[options |-> DocsOptions]>>]
    /\ calls' = [calls EXCEPT ![i] =
            Append(@, [repo_url |-> a.repo_url, options |-> DocsOptions])]
    /\ outcome' = [outcome EXCEPT ![i] = Pending]
    /\ UNCHANGED <<reply, now>>

\* A call whose arguments the tool's schema refuses: the handler is not run.
RejectInvalid(i, tool, a) ==
    /\ pc[i] = "idle"
    /\ ~ValidInput(tool, a)
    /\ pc' = [pc EXCEPT ![i] = "rejected"]
    /\ request' = [request EXCEPT ![i] = [tool |-> tool, args |-> a]]
    /\ UNCHANGED <<frame, calls, outcome, reply, now>>

\* The collaborator completes with [summary, tree, content].
IngestFulfils(i, r) ==
    /\ pc[i] = "awaiting"
    /\ outcome[i].state = "pending"
    /\ outcome' = [outcome EXCEPT ![i] = Fulfilled(r)]
    /\ UNCHANGED <<pc, request, frame, calls, reply, now>>

\* The collaborator raises e.
IngestRejects(i, e) ==
    /\ pc[i] = "awaiting"
    /\ outcome[i].state = "pending"
    /\ outcome' = [outcome EXCEPT ![i] = Rejected(e)]
    /\ UNCHANGED <<pc, request, frame, calls, reply, now>>

\* The handler resumes after the await in its try block and returns the
\* success reply.
Return(i) ==
    /\ pc[i] = "awaiting"
    /\ outcome[i].state = "fulfilled"
    /\ reply' = [reply EXCEPT ![i] =
            Append(@, JSONstringify(SuccessDoc(request[i].tool, request[i].args,
                                               frame[i][1].options, outcome[i].result, now)))]
    /\ frame' = [frame EXCEPT ![i] = <<>>]
    /\ pc' = [pc EXCEPT ![i] = "replied"]
    /\ UNCHANGED <<request, calls, outcome, now>>

\* Catch calling the collaborator a second time instead of replying.
CatchRetry(i) ==
    /\ pc[i] = "awaiting"
    /\ outcome[i].state = "rejected"
    /\ calls' = [calls EXCEPT ![i] =
            Append(@, [repo_url |-> request[i].args.repo_url,
                       options |-> frame[i][1].options])]
    /\ outcome' = [outcome EXCEPT ![i] = Pending]
    /\ UNCHANGED <<pc, request, frame, reply, now>>

\* The handler resumes in its catch block and returns the failure reply.
Catch(i) ==
    /\ pc[i] = "awaiting"
    /\ outcome[i].state = "rejected"
    /\ reply' = [reply EXCEPT ![i] =
            Append(@, JSONstringify(FailureDoc(request[i].tool, request[i].args,
                                               outcome[i].error)))]
    /\ frame' = [frame EXCEPT ![i] = <<>>]
    /\ pc' = [pc EXCEPT ![i] = "replied"]
    /\ UNCHANGED <<request, calls, outcome, now>>

\* The transport sends the reply (or the schema error) and the slot is free
\* for the next call.
Send(i) ==
    /\ pc[i] \in {"replied", "rejected"}
    /\ pc' = [pc EXCEPT ![i] = "idle"]
    /\ request' = [request EXCEPT ![i] = NoRequest]
    /\ frame' = [frame EXCEPT ![i] = <<>>]
    /\ calls' = [calls EXCEPT ![i] = <<>>]
    /\ outcome' = [outcome EXCEPT ![i] = NoOutcome]
    /\ reply' = [reply EXCEPT ![i] = <<>>]
    /\ UNCHANGED now

\* Time passes.
Tick ==
    /\ now < MaxClock
    /\ now' = now + 1
    /\ UNCHANGED <<pc, request, frame, calls, outcome, reply>>

Next ==
    \/ \E i \in 1..MaxSlots :
        \/ \E a \in IngestArgs : ingest_github_repo(i, a)
        \/ \E a \in RepoOnlyArgs : get_repo_structure(i, a)
        \/ \E a \in AnalyzeArgs : analyze_code_files(i, a)
        \/ \E a \in RepoOnlyArgs : get_repo_docs(i, a)
        \/ \E a \in IngestArgs : RejectInvalid(i, "ingest_github_repo", a)
        \/ \E a \in RepoOnlyArgs : RejectInvalid(i, "get_repo_structure", a)
        \/ \E a \in AnalyzeArgs : RejectInvalid(i, "analyze_code_files", a)
        \/ \E a \in RepoOnlyArgs : RejectInvalid(i, "get_repo_docs", a)
        \/ \E r \in Results : IngestFulfils(i, r)
        \/ \E e \in Thrown : IngestRejects(i, e)
        \/ Return(i)
        \/ Catch(i)
        \/ Send(i)
    \/ Tick

Spec == Init /\ [][Next]_vars

NextConc ==
    \/ \E i \in 1..MaxConcSlots :
        \/ \E a \in ConcIngestArgs : ingest_github_repo(i, a)
        \/ \E a \in ConcRepoOnlyArgs : get_repo_structure(i, a)
        \/ \E a \in ConcAnalyzeArgs : analyze_code_files(i, a)
        \/ \E a \in ConcRepoOnlyArgs : get_repo_docs(i, a)
        \/ \E a \in ConcRepoOnlyArgs : RejectInvalid(i, "get_repo_docs", a)
        \/ \E r \in ConcResults : IngestFulfils(i, r)
        \/ \E e \in ConcThrown : IngestRejects(i, e)
        \/ Return(i)
        \/ Catch(i)
        \/ Send(i)
    \/ Tick

SpecConc == InitConc /\ [][NextConc]_vars

TypeOK ==
    /\ pc \in [Slots -> {"idle", "awaiting", "replied", "rejected"}]
    /\ now \in 0..MaxClock

\* ------------------------------------------------------------------------
\* Properties
\* ------------------------------------------------------------------------
Settled(i) == outcome[i].state \in {"fulfilled", "rejected"}
Succeeded(i) == pc[i] = "replied" /\ outcome[i].state = "fulfilled"
Failed(i) == pc[i] = "replied" /\ outcome[i].state = "rejected"
\* The reply document of a slot that has replied.
Doc(i) == reply[i][1]
\* The options of the slot's call of the collaborator.
Passed(i) == calls[i][1].options
\* The object under metadata.options_used of a reply document.
OptionsUsed(doc) ==
    [k \in {f \in OptionKeys : ("metadata.options_used." \o f) \in DOMAIN doc} |->
        doc["metadata.options_used." \o k]]

\* C1: an invocation whose input passes validation calls the collaborator
\* exactly once and produces exactly one reply; a failure of the collaborator
\* is not followed by a second call, and no reply exists before the
\* collaborator has completed or failed.
C1_OneCallOneReply ==
    \A i \in Slots :
        /\ Len(calls[i]) <= 1
        /\ Len(reply[i]) <= 1
        /\ pc[i] \in {"awaiting", "replied"} => Len(calls[i]) = 1
        /\ pc[i] = "replied" <=> Len(reply[i]) = 1
        /\ Len(reply[i]) = 1 => Settled(i)
        /\ outcome[i].state = "pending" => reply[i] = <<>>

C1_Witness ==
    \E i \in Slots : Failed(i) /\ Len(calls[i]) = 1 /\ Len(reply[i]) = 1

\* C2: when the collaborator raises (an Error with any message, or a
\* non-Error value), the failure reply has a non-empty message and echoes
\* the repository reference of the input.
C2_FailureMessageNonEmpty ==
    \A i \in Slots :
        Failed(i) =>
            /\ "message" \in DOMAIN Doc(i)
            /\ Doc(i)["message"].type = "string"
            /\ Doc(i)["message"].str # ""
            /\ "repo_url" \in DOMAIN Doc(i)
            /\ Doc(i)["repo_url"] = request[i].args.repo_url

\* C3: ingest_github_repo passes each of include_patterns, exclude_patterns
\* and max_file_size to the collaborator with the caller's value whenever the
\* caller supplied it (an empty list and 0 included), and leaves the key out
\* whenever the caller did not.
C3_SuppliedFieldsCopied ==
    \A i \in Slots :
        (request[i].tool = "ingest_github_repo" /\ calls[i] # <<>>) =>
            \A k \in OptionKeys :
                IF request[i].args[k].type # "undefined"
                THEN k \in DOMAIN Passed(i) /\ Passed(i)[k] = request[i].args[k]
                ELSE k \notin DOMAIN Passed(i)

\* C4: get_repo_structure calls the collaborator with max_file_size = 1 and
\* no other option, and its success reply holds summary, tree and the
\* repository reference but no content, whatever content came back.
C4_StructureOmitsContent ==
    \A i \in Slots :
        request[i].tool = "get_repo_structure" =>
            /\ calls[i] # <<>> =>
                /\ DOMAIN Passed(i) = {"max_file_size"}
                /\ Passed(i)["max_file_size"] = JsNumber(1)
                /\ calls[i][1].repo_url = request[i].args.repo_url
            /\ Succeeded(i) =>
                /\ DOMAIN Doc(i) = {"summary", "tree", "repo_url"}
                /\ Doc(i)["summary"] = outcome[i].result.summary
                /\ Doc(i)["tree"] = outcome[i].result.tree
                /\ Doc(i)["repo_url"] = request[i].args.repo_url

C4_Witness ==
    \E i \in Slots :
        /\ request[i].tool = "get_repo_structure"
        /\ Succeeded(i)
        /\ outcome[i].result.content.str # ""
        /\ "content" \notin DOMAIN Doc(i)

\* The languages C5 and C6 name.
ClaimedLanguages ==
    {"python", "javascript", "typescript", "go", "rust", "java", "csharp"}

\* C5: an invocation whose input violates the tool's schema (the repository
\* reference missing or not a string, or for analyze_code_files a language
\* outside the closed set) never reaches the collaborator.
C5_InvalidInputNeverCalls ==
    \A i \in Slots :
        /\ calls[i] # <<>> =>
            /\ request[i].args.repo_url.type = "string"
            /\ request[i].tool = "analyze_code_files" =>
                /\ request[i].args.language.type = "string"
                /\ request[i].args.language.str \in ClaimedLanguages
        /\ pc[i] = "rejected" =>
            /\ calls[i] = <<>>
            /\ outcome[i].state = "none"

C5_Witness ==
    \E i \in Slots :
        /\ pc[i] = "rejected"
        /\ request[i].tool = "analyze_code_files"
        /\ request[i].args.repo_url.type = "string"
        /\ request[i].args.language = JsString("ruby")
        /\ calls[i] = <<>>

\* The table of C6.
ClaimedPatterns ==
    [python |-> <<"*.py">>,
     javascript |-> <<"*.js", "*.mjs">>,
     typescript |-> <<"*.ts", "*.tsx">>,
     go |-> <<"*.go">>,
     rust |-> <<"*.rs">>,
     java |-> <<"*.java">>,
     csharp |-> <<"*.cs">>]

\* C6: analyze_code_files calls the collaborator with the language's entry
\* of the fixed table as include_patterns, with exclude_patterns
\* [node_modules/*, dist/*, build/*, *.min.js] and max_file_size 102400,
\* whatever the repository reference is; the patterns_used of its success
\* reply are the include_patterns it passed.
C6_AnalyzeOptionsFromTable ==
    \A i \in Slots :
        request[i].tool = "analyze_code_files" =>
            /\ calls[i] # <<>> =>
                /\ DOMAIN Passed(i) = {"include_patterns", "exclude_patterns", "max_file_size"}
                /\ Passed(i)["include_patterns"] =
                        JsArray(ClaimedPatterns[request[i].args.language.str])
                /\ Passed(i)["exclude_patterns"] =
                        JsArray(<<"node_modules/*", "dist/*", "build/*", "*.min.js">>)
                /\ Passed(i)["max_file_size"] = JsNumber(102400)
                /\ calls[i][1].repo_url = request[i].args.repo_url
            /\ Succeeded(i) =>
                /\ "analysis.patterns_used" \in DOMAIN Doc(i)
                /\ Doc(i)["analysis.patterns_used"] = Passed(i)["include_patterns"]

C6_Witness ==
    \E i \in Slots :
        /\ request[i].tool = "analyze_code_files"
        /\ request[i].args.language = JsString("javascript")
        /\ request[i].args.repo_url = JsString("https://github.com/b/y")
        /\ Succeeded(i)
        /\ Doc(i)["analysis.patterns_used"] = JsArray(<<"*.js", "*.mjs">>)

\* C7: get_repo_docs calls the collaborator with include_patterns
\* [*.md, *.mdx, *.txt, LICENSE*, README*] in that order, max_file_size
\* 51200 and no exclude_patterns, whatever the repository reference is.
C7_DocsOptionsFixed ==
    \A i \in Slots :
        (request[i].tool = "get_repo_docs" /\ calls[i] # <<>>) =>
            /\ DOMAIN Passed(i) = {"include_patterns", "max_file_size"}
            /\ Passed(i)["include_patterns"] =
                    JsArray(<<"*.md", "*.mdx", "*.txt", "LICENSE*", "README*">>)
            /\ Passed(i)["max_file_size"] = JsNumber(51200)
            /\ calls[i][1].repo_url = request[i].args.repo_url

C7_Witness ==
    \E i \in Slots :
        /\ request[i].tool = "get_repo_docs"
        /\ request[i].args.repo_url = JsString("https://github.com/b/y")
        /\ Len(calls[i]) = 1
        /\ Settled(i)

\* The reply holds the collaborator's three output fields.
EchoesResult(i) ==
    /\ {"summary", "tree", "content"} \subseteq DOMAIN Doc(i)
    /\ Doc(i)["summary"] = outcome[i].result.summary
    /\ Doc(i)["tree"] = outcome[i].result.tree
    /\ Doc(i)["content"] = outcome[i].result.content

\* C8 as stated: on collaborator success the reply of each of the four
\* operations holds the collaborator's summary, tree and content.
C8_AllFourEchoResult ==
    \A i \in Slots : Succeeded(i) => EchoesResult(i)

\* C8 as amended: on collaborator success the replies of ingest_github_repo,
\* analyze_code_files and get_repo_docs hold the collaborator's summary, tree
\* and content, and the reply of get_repo_structure holds its summary and
\* tree but no content; every reply echoes the repository reference,
\* analyze_code_files also the language and the patterns it passed, and the
\* options_used of ingest_github_repo are the options it passed.
C8_SuccessPayload ==
    \A i \in Slots :
        Succeeded(i) =>
            LET tool == request[i].tool
                a == request[i].args
            IN  /\ tool # "get_repo_structure" => EchoesResult(i)
                /\ tool = "get_repo_structure" =>
                    /\ {"summary", "tree", "repo_url"} \subseteq DOMAIN Doc(i)
                    /\ "content" \notin DOMAIN Doc(i)
                    /\ Doc(i)["summary"] = outcome[i].result.summary
                    /\ Doc(i)["tree"] = outcome[i].result.tree
                    /\ Doc(i)["repo_url"] = a.repo_url
                /\ tool = "ingest_github_repo" =>
                    /\ {"metadata.repo_url", "metadata.timestamp", "metadata.options_used"}
                            \subseteq DOMAIN Doc(i)
                    /\ Doc(i)["metadata.repo_url"] = a.repo_url
                    /\ OptionsUsed(Doc(i)) = Passed(i)
                /\ tool = "analyze_code_files" =>
                    /\ {"analysis.language", "analysis.patterns_used", "analysis.repo_url"}
                            \subseteq DOMAIN Doc(i)
                    /\ Doc(i)["analysis.language"] = a.language
                    /\ Doc(i)["analysis.patterns_used"] = Passed(i)["include_patterns"]
                    /\ Doc(i)["analysis.repo_url"] = a.repo_url
                /\ tool = "get_repo_docs" =>
                    /\ "metadata.repo_url" \in DOMAIN Doc(i)
                    /\ Doc(i)["metadata.repo_url"] = a.repo_url

C8_Witness ==
    \E i \in Slots :
        /\ request[i].tool = "ingest_github_repo"
        /\ request[i].args.include_patterns = JsArray(<<"*.py">>)
        /\ Succeeded(i)
        /\ OptionsUsed(Doc(i)) = Passed(i)
        /\ "include_patterns" \in DOMAIN Passed(i)

\* A document without its completion timestamp.
WithoutTimestamp(doc) ==
    [k \in DOMAIN doc \ {"metadata.timestamp"} |-> doc[k]]

\* C9 as stated: under interleaving, the collaborator arguments and the
\* reply of an invocation depend only on its own input and its own
\* collaborator outcome (two invocations alike in both are alike in their
\* arguments and replies), and nothing is kept once the reply is sent.
C9_OwnInputAndOutcomeOnly ==
    /\ \A i, j \in Slots :
        /\ (request[i] = request[j] /\ calls[i] # <<>> /\ calls[j] # <<>>) =>
                calls[i] = calls[j]
        /\ (request[i] = request[j] /\ outcome[i] = outcome[j]
                /\ pc[i] = "replied" /\ pc[j] = "replied") =>
                reply[i] = reply[j]
    /\ \A i \in Slots :
        pc[i] = "idle" =>
            /\ request[i] = NoRequest /\ frame[i] = <<>> /\ calls[i] = <<>>
            /\ outcome[i] = NoOutcome /\ reply[i] = <<>>

\* C9 as amended: the collaborator arguments depend only on the invocation's
\* own input, and the reply only on its own input, its own collaborator
\* outcome and, in the timestamp of ingest_github_repo, the clock when the
\* handler resumed; the handler's locals are gone once it has replied and
\* nothing is kept once the reply is sent.
C9_NoInterference ==
    /\ \A i, j \in Slots :
        /\ (request[i] = request[j] /\ calls[i] # <<>> /\ calls[j] # <<>>) =>
                calls[i] = calls[j]
        /\ (request[i] = request[j] /\ outcome[i] = outcome[j]
                /\ pc[i] = "replied" /\ pc[j] = "replied") =>
                /\ Len(reply[i]) = Len(reply[j])
                /\ WithoutTimestamp(Doc(i)) = WithoutTimestamp(Doc(j))
    /\ \A i \in Slots :
        /\ pc[i] = "replied" => frame[i] = <<>>
        /\ pc[i] = "idle" =>
            /\ request[i] = NoRequest /\ frame[i] = <<>> /\ calls[i] = <<>>
            /\ outcome[i] = NoOutcome /\ reply[i] = <<>>

C9_Witness ==
    \E i, j \in Slots :
        /\ i # j
        /\ request[i] = request[j]
        /\ request[i].tool = "ingest_github_repo"
        /\ Succeeded(i) /\ Succeeded(j)
        /\ outcome[i] = outcome[j]
        /\ calls[i] = calls[j]
        /\ Doc(i)["metadata.timestamp"] # Doc(j)["metadata.timestamp"]

====
